---- MODULE Spec2Model ----
(***************************************************************************)
(* libzstd-seek: a random-access reader over a concatenation of Zstandard  *)
(* frames (src/zstd-seek.c).  The reader context, the jump table, the      *)
(* index builder and read/seek are modelled from the C source; the         *)
(* Zstandard codec is modelled by its contract on a source that is         *)
(* described frame by frame.                                               *)
(*                                                                         *)
(* Uncompressed bytes are identified with their offset in the ground-truth *)
(* uncompressed stream, so "the bytes at [p, p+k)" is the sequence         *)
(* <<p, ..., p+k-1>> and any misplaced byte is visible.                    *)
(***************************************************************************)
EXTENDS Integers, Sequences, FiniteSets, TLC

(***************************************************************************)
(* Bounds of the model.                                                    *)
(***************************************************************************)
\* Largest number of frames of a source (the seek-table frame not counted).
MaxFrames == 2
\* Largest byte count a caller passes to read.
MaxRead == 3
\* Largest jump table kept: a call that would grow the table beyond it is
\* not made (initializing again over a seek table appends without end).
MaxRecords == 6
\* ZSTD_DStreamOutSize(): capacity of the staging buffer (128 KiB in the
\* library, scaled down so that a frame can need several decompress calls).
OutSize == 2
\* Frames per source and uncompressed bytes per frame of the sources the
\* lookup is exercised on.
MaxLocateFrames == 4
MaxFrameSize == 3

(***************************************************************************)
(* Integer widths.  TLC's integers are 32-bit, so the widths are scaled:   *)
(* size_t wraps at 2^30 and uint32_t at 2^16.  Every position of the model *)
(* is far below both, so a wrap happens exactly where the C code wraps.    *)
(***************************************************************************)
SizeModulus == 2^30
UInt32Modulus == 2^16
SizeT(x) == x % SizeModulus
UInt32(x) == x % UInt32Modulus
SIZE_MAX == SizeModulus - 1

Min(a, b) == IF a < b THEN a ELSE b

(***************************************************************************)
(* Constants of zstd-seek.h and of zstd.h.                                 *)
(***************************************************************************)
ZSTDSEEK_ERR_NEGATIVE_SEEK == -1
ZSTDSEEK_ERR_BEYOND_END_SEEK == -2
ZSTDSEEK_ERR_READ == -3
ZSTD_SEEK_TABLE_FOOTER_SIZE == 9
ZSTD_SKIPPABLE_HEADER_SIZE == 8
SEEK_SET == 0
SEEK_CUR == 1
SEEK_END == 2

\* zstd error codes are (size_t)-code, code <= ZSTD_error_maxCode = 120.
ZSTD_error_prefix_unknown == SizeModulus - 10
ZSTD_error_corruption_detected == SizeModulus - 20
ZSTD_CONTENTSIZE_UNKNOWN == SizeModulus - 1
ZSTD_isError(code) == code > SizeModulus - 120

(***************************************************************************)
(* The source: the compressed image the reader is attached to.             *)
(*   frames   the Zstandard frames, in order; a frame is described by its  *)
(*            compressed size, its uncompressed size, whether its header   *)
(*            carries the content size, and whether it is skippable        *)
(*   trailer  "none", or "valid" when a well-formed seekable-format seek   *)
(*            table (itself a skippable frame) follows the frames          *)
(*   pastEnd  what ZSTD_findFrameCompressedSize yields for the bytes just  *)
(*            past the end of the image.  The code probes there with the   *)
(*            full image length (zstd-seek.c:169, 411, 580), which reads   *)
(*            outside the buffer; the probe then yields 0 or an error      *)
(*            code depending on what lies there.                           *)
(*   damage   the frame that is damaged (0: none) and how.  "header": the  *)
(*            frame header is not a Zstandard header, every probe of the   *)
(*            frame reports an error.  "body": the header and the block    *)
(*            sizes are intact and the content is not, so the probes       *)
(*            succeed and the decompress call that finishes the frame      *)
(*            reports an error.                                            *)
(* A trailer "overstated" is a well-formed seek table whose last entry     *)
(* declares two uncompressed bytes more than the frame holds: the code     *)
(* never compares a seek table with the frames.  Skippable frames have no  *)
(* content that could be damaged.                                          *)
(***************************************************************************)
Frame(c, u, known, skippable) ==
    [csize |-> c, usize |-> u, known |-> known, skippable |-> skippable]

\* A data frame decoded by one decompress call, content size in its header.
SmallFrame == Frame(10, 2, TRUE, FALSE)
\* A data frame that needs two decompress calls and has no content size in
\* its header (the index builder must decompress it to measure it).
LargeFrame == Frame(12, OutSize + 1, FALSE, FALSE)
\* A skippable frame: no uncompressed content.
SkippableFrame == Frame(9, 0, TRUE, TRUE)

FrameKinds == {SmallFrame, LargeFrame, SkippableFrame}

FrameLists == UNION {[1..n -> FrameKinds] : n \in 1..MaxFrames}

PastEndOutcomes == {0, ZSTD_error_prefix_unknown}

NoDamage == [frame |-> 0, kind |-> "none"]

\* The valid sources.
Sources ==
    [frames : FrameLists, trailer : {"none", "valid"}, pastEnd : PastEndOutcomes,
     damage : {NoDamage}]

\* The sources with one defect: a damaged frame, or a seek table that
\* overstates the last frame.
DamagedSources ==
    {s \in [frames : FrameLists, trailer : {"none", "valid", "overstated"},
            pastEnd : PastEndOutcomes,
            damage : {NoDamage} \cup [frame : 1..MaxFrames, kind : {"header", "body"}]] :
        /\ s.damage.frame <= Len(s.frames)
        /\ s.damage.kind = "body" => ~s.frames[s.damage.frame].skippable
        /\ (s.damage = NoDamage) = (s.trailer = "overstated")}

\* The ways a trailer that carries the footer magic of the seekable format
\* can fail the checks of zstd-seek.c:122-138.
\*   "reserved"  a reserved bit of the descriptor byte is set
\*   "magic"     the trailer is a skippable frame of another magic number
\*   "size"      the size field of the trailer's skippable header is one
\*               less than the table and the footer take, so the codec
\*               sees a frame one byte shorter and a byte that starts none
\*   "outside"   the footer's frame count gives a frame size larger than
\*               the image, so buff + (size - frameSize) lies outside it
MalformedTrailers == {"reserved", "magic", "size", "outside"}

\* What the read of the skippable magic at an address outside the image
\* (zstd-seek.c:130-131) does: the process faults, or the read yields bytes
\* that are not the magic number.
WildReadOutcomes == {"fault", "mismatch"}

\* The sources whose trailer is malformed; wild is what the read outside
\* the image does, for the trailers that cause one.
MalformedSources ==
    {s \in [frames : FrameLists, trailer : MalformedTrailers,
            pastEnd : PastEndOutcomes, damage : {NoDamage},
            wild : WildReadOutcomes] :
        s.trailer # "outside" => s.wild = "mismatch"}

IsDamaged(src, f, kind) == src.damage.frame = f /\ src.damage.kind = kind

\* The entries of a truthful seek table: (compressed size, uncompressed
\* size) of every frame.
SeekTableEntries(frames) ==
    [i \in 1..Len(frames) |-> <<frames[i].csize, frames[i].usize>>]

\* The entries of the seek table of a source.
SeekTableOf(src) ==
    LET n == Len(src.frames)
        truthful == SeekTableEntries(src.frames)
    IN  IF src.trailer = "overstated"
        THEN [truthful EXCEPT ![n] = <<truthful[n][1], truthful[n][2] + 2>>]
        ELSE truthful

\* The seek table as a frame of the image: skippable header, 8 bytes per
\* entry (no checksums), 9-byte footer.
SeekTableFrame(frames) ==
    Frame(ZSTD_SKIPPABLE_HEADER_SIZE + 8 * Len(frames) + ZSTD_SEEK_TABLE_FOOTER_SIZE,
          0, TRUE, TRUE)

\* All frames of the image as the codec sees them.
ImageFrames(src) ==
    IF src.trailer = "none" THEN src.frames
    ELSE IF src.trailer = "size"
    THEN Append(src.frames,
                Frame(SeekTableFrame(src.frames).csize - 1, 0, TRUE, TRUE))
    ELSE Append(src.frames, SeekTableFrame(src.frames))

RECURSIVE SumCSize(_, _)
SumCSize(fr, n) == IF n = 0 THEN 0 ELSE SumCSize(fr, n - 1) + fr[n].csize

RECURSIVE SumUSize(_, _)
SumUSize(fr, n) == IF n = 0 THEN 0 ELSE SumUSize(fr, n - 1) + fr[n].usize

\* Where frame f starts in the compressed image / in the uncompressed stream.
CompStart(fr, f) == SumCSize(fr, f - 1)
UncompStart(fr, f) == SumUSize(fr, f - 1)

ImageSize(src) ==
    SumCSize(ImageFrames(src), Len(ImageFrames(src)))
    + (IF src.trailer = "size" THEN 1 ELSE 0)
\* The true size of the whole uncompressed stream.
TotalUncompressed(src) == SumUSize(ImageFrames(src), Len(ImageFrames(src)))
\* The ground-truth uncompressed bytes at offsets [p, p+k).
GroundTruth(p, k) == [i \in 1..k |-> p + i - 1]

\* The frame that starts at compressed offset pos, 0 when none does.
FrameIndexAt(fr, pos) ==
    IF \E f \in 1..Len(fr) : CompStart(fr, f) = pos
    THEN CHOOSE f \in 1..Len(fr) : CompStart(fr, f) = pos
    ELSE 0

(***************************************************************************)
(* The codec (zstd.h), by its contract.                                    *)
(***************************************************************************)
ZSTD_findFrameCompressedSize(src, pos) ==
    LET fr == ImageFrames(src)
        At(f) == IF f # 0
                 THEN IF IsDamaged(src, f, "header") THEN ZSTD_error_prefix_unknown
                      ELSE fr[f].csize
                 ELSE IF pos >= ImageSize(src) THEN src.pastEnd
                 ELSE ZSTD_error_prefix_unknown
    IN  At(FrameIndexAt(fr, pos))

ZSTD_getFrameContentSize(src, pos) ==
    LET fr == ImageFrames(src)
        At(f) == IF f = 0 \/ IsDamaged(src, f, "header")
                 THEN ZSTD_error_prefix_unknown
                 ELSE IF fr[f].skippable THEN 0
                 ELSE IF fr[f].known THEN fr[f].usize
                 ELSE ZSTD_CONTENTSIZE_UNKNOWN
    IN  At(FrameIndexAt(fr, pos))

\* A decompression session: the frame it is inside (0: none, it expects a
\* frame header) and the number of decompress calls already spent on it.
FreshDCtx == [frame |-> 0, calls |-> 0]

\* Number of ZSTD_decompressStream calls a frame needs when every call gets
\* an empty output buffer of outSize bytes.
DecodeCalls(F, outSize) ==
    IF F.usize = 0 THEN 1 ELSE (F.usize + outSize - 1) \div outSize

\* One ZSTD_decompressStream call with an empty output buffer of outSize
\* bytes and the input cursor `input` (src: offset in the image, size, pos).
\* It fills the output with the next bytes of the frame, consumes the input
\* that produced them, and returns 0 when the frame is complete, a positive
\* hint while it is not, an error code when the input is not what the
\* session expects.
ZSTD_decompressStream(src, dctx, input, outSize) ==
    LET fr == ImageFrames(src)
        q == input.src + input.pos
        failed == [ret |-> ZSTD_error_corruption_detected, dctx |-> dctx,
                   pos |-> input.pos, out |-> <<>>]
        \* Call number k of the K calls that frame F, the f-th, needs.
        Step(f, F, K, k) ==
            LET share == F.csize \div K
                expected == CompStart(fr, f) + (k - 1) * share
                cin == IF k < K THEN share ELSE F.csize - (K - 1) * share
                cout == IF k < K THEN outSize ELSE F.usize - (K - 1) * outSize
                base == UncompStart(fr, f) + (k - 1) * outSize
            IN  IF q # expected \/ cin > input.size - input.pos THEN failed
                ELSE IF k = K /\ IsDamaged(src, f, "body") THEN failed
                ELSE [ret |-> IF k = K THEN 0 ELSE 1,
                      dctx |-> IF k = K THEN FreshDCtx
                               ELSE [frame |-> f, calls |-> k],
                      pos |-> input.pos + cin,
                      out |-> GroundTruth(base, cout)]
        InFrame(f) ==
            IF f = 0 \/ IsDamaged(src, f, "header") THEN failed
            ELSE Step(f, fr[f], DecodeCalls(fr[f], outSize), dctx.calls + 1)
    IN  InFrame(IF dctx.frame = 0 THEN FrameIndexAt(fr, q) ELSE dctx.frame)

(***************************************************************************)
(* The jump table (zstd-seek.c: Jump Table API).                           *)
(***************************************************************************)
ZSTDSeek_JumpTableRecord(c, u) == [compressedPos |-> c, uncompressedPos |-> u]

ZSTDSeek_newJumpTable == <<>>

\* Mutant of ZSTDSeek_addJumpTableRecord: a non-empty table is not grown,
\* the new record takes the place of the last one.
ZSTDSeek_addJumpTableRecord_Overwrite(jt, compressedPos, uncompressedPos) ==
    IF Len(jt) = 0
    THEN <<ZSTDSeek_JumpTableRecord(compressedPos, uncompressedPos)>>
    ELSE [jt EXCEPT ![Len(jt)] =
              ZSTDSeek_JumpTableRecord(compressedPos, uncompressedPos)]

ZSTDSeek_addJumpTableRecord(jt, compressedPos, uncompressedPos) ==
    Append(jt, ZSTDSeek_JumpTableRecord(compressedPos, uncompressedPos))

\* sctx->jt->records[sctx->jt->length-1]
LastRecord(jt) == jt[Len(jt)]

ZSTDSeek_lastKnownUncompressedFileSize(sctx) ==
    IF Len(sctx.jt) > 0 THEN LastRecord(sctx.jt).uncompressedPos ELSE 0

ZSTDSeek_jumpTableIsInitialized(sctx) == sctx.jumpTableFullyInitialized

(***************************************************************************)
(* The index builder: ZSTDSeek_initializeJumpTableUpUntilPos.              *)
(***************************************************************************)
\* Strategy (A): the records of a seek table, accumulated in uint32_t
\* cOffset/dOffset (zstd-seek.c:139-147).
RECURSIVE ImportSeekTable(_, _, _, _, _)
ImportSeekTable(jt, entries, i, cOffset, dOffset) ==
    IF i > Len(entries)
    THEN ZSTDSeek_addJumpTableRecord(jt, cOffset, dOffset)
    ELSE ImportSeekTable(ZSTDSeek_addJumpTableRecord(jt, cOffset, dOffset),
                         entries, i + 1,
                         UInt32(cOffset + entries[i][1]),
                         UInt32(dOffset + entries[i][2]))

\* The inner loop of the linear scan that measures a frame of unknown
\* content size by decompressing it with a session of its own
\* (zstd-seek.c:176-204).  m: [dctx, input, frameContentSize, lastRet].
RECURSIVE MeasureFrame(_, _)
MeasureFrame(src, m) ==
    IF ~(m.input.pos < m.input.size) THEN m
    ELSE LET Decompressed(d) ==
                 IF ZSTD_isError(d.ret) THEN [m EXCEPT !.lastRet = d.ret]
                 ELSE MeasureFrame(src,
                        [dctx |-> d.dctx,
                         input |-> [m.input EXCEPT !.pos = d.pos],
                         frameContentSize |-> m.frameContentSize + Len(d.out),
                         lastRet |-> d.ret])
         IN  Decompressed(ZSTD_decompressStream(src, m.dctx, m.input, OutSize))

\* Mutant of NeedsRecord: a record is appended at every frame and at every
\* stop of the scan.
NeedsRecord_Always(jt, uncompressedPos) == TRUE

\* Whether a record for the frame at uncompressedPos has to be appended
\* (zstd-seek.c:172 and 216).
NeedsRecord(jt, uncompressedPos) ==
    Len(jt) = 0 \/ LastRecord(jt).uncompressedPos < uncompressedPos

\* Strategy (B): the while loop of the linear scan (zstd-seek.c:169-214).
\* st: [jt, compressedPos, uncompressedPos, fullyInitialized, failed].
RECURSIVE ScanFrames(_, _, _)
ScanFrames(src, st, upUntilPos) ==
    LET jt1 == IF NeedsRecord(st.jt, st.uncompressedPos)
               THEN ZSTDSeek_addJumpTableRecord(st.jt, st.compressedPos,
                                                st.uncompressedPos)
               ELSE st.jt
        \* zstd-seek.c:199-213, m the measured frame.
        Measured(frameCompressedSize, m) ==
            IF m.lastRet # 0
            THEN [st EXCEPT !.jt = jt1, !.failed = TRUE]
            ELSE LET cpos == st.compressedPos + frameCompressedSize
                     upos == st.uncompressedPos + m.frameContentSize
                     st1 == [st EXCEPT !.jt = jt1, !.compressedPos = cpos,
                                       !.uncompressedPos = upos]
                 IN  IF upos >= upUntilPos
                     THEN [st1 EXCEPT !.fullyInitialized = 0]
                     ELSE ScanFrames(src, st1, upUntilPos)
        \* zstd-seek.c:170-198, headerSize what the frame header tells.
        Sized(frameCompressedSize, headerSize) ==
            Measured(frameCompressedSize,
                     IF ZSTD_isError(headerSize)
                     THEN MeasureFrame(src,
                            [dctx |-> FreshDCtx,
                             input |-> [src |-> st.compressedPos,
                                        size |-> frameCompressedSize, pos |-> 0],
                             frameContentSize |-> 0, lastRet |-> 0])
                     ELSE [frameContentSize |-> headerSize, lastRet |-> 0])
        \* zstd-seek.c:169, the loop condition.
        Found(frameCompressedSize) ==
            IF ~(frameCompressedSize > 0 /\ ~ZSTD_isError(frameCompressedSize))
            THEN st
            ELSE Sized(frameCompressedSize,
                       ZSTD_getFrameContentSize(src, st.compressedPos))
    IN  Found(ZSTD_findFrameCompressedSize(src, st.compressedPos))

\* The checks of the trailer (zstd-seek.c:113-138): "import" when all of
\* them pass, "scan" when one of them fails and the code goes on to the
\* linear scan, "fault" when the read of line 131 faults.
TrailerCheck(src) ==
    IF src.trailer = "none" THEN "scan"
    ELSE IF src.trailer = "reserved" THEN "scan"
    ELSE IF src.trailer = "outside"
    THEN IF src.wild = "fault" THEN "fault" ELSE "scan"
    ELSE IF src.trailer \in {"magic", "size"} THEN "scan"
    ELSE "import"

\* Whether the image ends with a seek table that passes the checks of
\* zstd-seek.c:113-138.
SeekTableDetected(src) == TrailerCheck(src) = "import"

\* Whether a call of the index builder faults in the checks of the trailer
\* and does not return.
IndexBuilderFaults(sctx) == TrailerCheck(sctx.buff) = "fault"

\* Strategy (A) applied to the context (zstd-seek.c:139-150): [sctx, ret].
ImportTrailer(sctx) ==
    [sctx |-> [sctx EXCEPT
                 !.jt = ImportSeekTable(sctx.jt, SeekTableOf(sctx.buff), 1, 0, 0),
                 !.jumpTableFullyInitialized = 1],
     ret |-> 0]

\* Strategy (B) applied to the context (zstd-seek.c:156-223): [sctx, ret].
LinearScan(sctx, upUntilPos) ==
    LET start == IF Len(sctx.jt) > 0
                 THEN [c |-> LastRecord(sctx.jt).compressedPos,
                       u |-> LastRecord(sctx.jt).uncompressedPos]
                 ELSE [c |-> 0, u |-> 0]
        \* After the loop (zstd-seek.c:215-223), st the state it ended in.
        AfterLoop(st) ==
            LET jt2 == IF ~st.failed /\ Len(st.jt) > 0
                          /\ NeedsRecord(st.jt, st.uncompressedPos)
                       THEN ZSTDSeek_addJumpTableRecord(st.jt, st.compressedPos,
                                                        st.uncompressedPos)
                       ELSE st.jt
            IN  [sctx |-> [sctx EXCEPT
                             !.jt = jt2,
                             !.jumpTableFullyInitialized = st.fullyInitialized],
                 ret |-> IF st.failed \/ Len(jt2) = 0 THEN -1 ELSE 0]
    IN  AfterLoop(ScanFrames(sctx.buff,
                    [jt |-> sctx.jt, compressedPos |-> start.c,
                     uncompressedPos |-> start.u, fullyInitialized |-> 1,
                     failed |-> FALSE],
                    upUntilPos))

\* ZSTDSeek_initializeJumpTableUpUntilPos: [sctx, ret].
ZSTDSeek_initializeJumpTableUpUntilPos(sctx, upUntilPos) ==
    IF SeekTableDetected(sctx.buff)
    THEN ImportTrailer(sctx)
    ELSE LinearScan(sctx, upUntilPos)

ZSTDSeek_initializeJumpTable(sctx) ==
    ZSTDSeek_initializeJumpTableUpUntilPos(sctx, SIZE_MAX)

(***************************************************************************)
(* locate: ZSTDSeek_getJumpCoordinate.                                     *)
(***************************************************************************)
ZSTDSeek_JumpCoordinate(c, u, jtr) ==
    [compressedOffset |-> c, uncompressedOffset |-> u, jtr |-> jtr]

\* The binary search of zstd-seek.c:236-256 over uint32_t l and r (indices
\* from 0).  Called on a non-empty table only; on an empty one r wraps and
\* the C code reads outside the array.
RECURSIVE BinarySearch(_, _, _, _)
BinarySearch(jt, l, r, uncompressedPos) ==
    IF ~(l <= r) \/ Len(jt) = 0
    THEN ZSTDSeek_JumpCoordinate(0, uncompressedPos, ZSTDSeek_JumpTableRecord(0, 0))
    ELSE LET m == (l + r) \div 2 IN
         IF jt[m + 1].uncompressedPos > uncompressedPos
         THEN IF m = 0
              THEN ZSTDSeek_JumpCoordinate(0, uncompressedPos,
                                           ZSTDSeek_JumpTableRecord(0, 0))
              ELSE BinarySearch(jt, l, m - 1, uncompressedPos)
         ELSE IF (m + 1) < Len(jt) /\ jt[m + 2].uncompressedPos <= uncompressedPos
         THEN BinarySearch(jt, m + 1, r, uncompressedPos)
         ELSE ZSTDSeek_JumpCoordinate(jt[m + 1].compressedPos,
                                      uncompressedPos - jt[m + 1].uncompressedPos,
                                      jt[m + 1])

\* Mutant of ZSTDSeek_getJumpCoordinate: the search leaves out the last
\* record of the table.
ZSTDSeek_getJumpCoordinate_SkipLast(sctx, uncompressedPos) ==
    LET Search(s1) ==
            [sctx |-> s1,
             jc |-> BinarySearch(s1.jt, 0, Len(s1.jt) - 2, uncompressedPos)]
    IN  Search(IF sctx.jumpTableFullyInitialized = 0
                  /\ (Len(sctx.jt) = 0
                      \/ LastRecord(sctx.jt).uncompressedPos <= uncompressedPos)
               THEN ZSTDSeek_initializeJumpTableUpUntilPos(sctx, uncompressedPos).sctx
               ELSE sctx)

\* ZSTDSeek_getJumpCoordinate: [sctx, jc]; it may extend the jump table.
ZSTDSeek_getJumpCoordinate(sctx, uncompressedPos) ==
    LET Search(s1) ==
            [sctx |-> s1,
             jc |-> BinarySearch(s1.jt, 0, Len(s1.jt) - 1, uncompressedPos)]
    IN  Search(IF sctx.jumpTableFullyInitialized = 0
                  /\ (Len(sctx.jt) = 0
                      \/ LastRecord(sctx.jt).uncompressedPos <= uncompressedPos)
               THEN ZSTDSeek_initializeJumpTableUpUntilPos(sctx, uncompressedPos).sctx
               ELSE sctx)

(***************************************************************************)
(* The reader context (struct ZSTDSeek_Context_s) and its construction.    *)
(* buff is the image, inBuff and input.src are offsets into it; tmpOutBuff *)
(* holds the output.pos bytes the last decompress call staged.             *)
(***************************************************************************)
ZSTDSeek_createWithoutJumpTable(src) ==
    [dctx |-> FreshDCtx,
     buff |-> src,
     size |-> ImageSize(src),
     inBuff |-> 0,
     currentUncompressedPos |-> 0,
     currentCompressedPos |-> 0,
     lastFrameCompressedSize |-> 0,
     jc |-> ZSTDSeek_JumpCoordinate(0, 0, ZSTDSeek_JumpTableRecord(0, 0)),
     tmpOutBuffSize |-> OutSize,
     tmpOutBuff |-> <<>>,
     tmpOutBuffPos |-> 0,
     mmap_fd |-> -1,
     close_fd |-> 0,
     input |-> [src |-> 0, size |-> 0, pos |-> 0],
     output |-> [size |-> 0, pos |-> 0],
     jt |-> ZSTDSeek_newJumpTable,
     jumpTableFullyInitialized |-> 0]

\* ZSTDSeek_create: the context with the jump table initialized.
ZSTDSeek_create(src) ==
    ZSTDSeek_initializeJumpTable(ZSTDSeek_createWithoutJumpTable(src)).sctx

\* Whether construction accepts the image (zstd-seek.c:363, 374).
CreateSucceeds(src, lazy) ==
    /\ ~ZSTD_isError(ZSTD_findFrameCompressedSize(src, 0))
    /\ lazy \/ ZSTDSeek_initializeJumpTable(ZSTDSeek_createWithoutJumpTable(src)).ret = 0

ZSTDSeek_tell(sctx) == sctx.currentUncompressedPos
ZSTDSeek_compressedTell(sctx) == sctx.currentCompressedPos

\* Mutant of ZSTDSeek_uncompressedFileSize: the index is not initialized.
ZSTDSeek_uncompressedFileSize_NoInit(sctx) ==
    [sctx |-> sctx, ret |-> ZSTDSeek_lastKnownUncompressedFileSize(sctx)]

\* ZSTDSeek_uncompressedFileSize: [sctx, ret].
ZSTDSeek_uncompressedFileSize(sctx) ==
    LET LastKnown(s1) ==
            [sctx |-> s1, ret |-> ZSTDSeek_lastKnownUncompressedFileSize(s1)]
    IN  LastKnown(ZSTDSeek_initializeJumpTable(sctx).sctx)

(***************************************************************************)
(* ZSTDSeek_read.  The local state of a call is L: [s, toRead, outBuff,    *)
(* failed], s the context, outBuff the bytes copied to the caller so far.  *)
(***************************************************************************)
\* A byte outside the staged part of tmpOutBuff.
Garbage == -1
ByteAt(buf, i) == IF i + 1 \in DOMAIN buf THEN buf[i + 1] ELSE Garbage

\* Mutant of DiscardThenCopy: the discarded bytes are counted as read.
DiscardThenCopy_CountsDiscard(L) ==
    LET s == L.s IN
    IF s.jc.uncompressedOffset > s.output.pos
    THEN [L EXCEPT !.s.jc.uncompressedOffset = @ - s.output.pos,
                   !.s.currentUncompressedPos = @ + s.output.pos]
    ELSE LET maxCopy == SizeT((s.output.pos - s.tmpOutBuffPos)
                              - s.jc.uncompressedOffset)
             toCopy == Min(maxCopy, L.toRead)
             from == s.tmpOutBuffPos + s.jc.uncompressedOffset
         IN  [L EXCEPT
                !.outBuff = @ \o [i \in 1..toCopy |-> ByteAt(s.tmpOutBuff, from + i - 1)],
                !.toRead = @ - toCopy,
                !.s.currentUncompressedPos = @ + toCopy + s.jc.uncompressedOffset,
                !.s.tmpOutBuffPos = @ + toCopy + s.jc.uncompressedOffset,
                !.s.jc.uncompressedOffset = 0]

\* The discard-then-copy step (zstd-seek.c:396-408 and 428-440).
DiscardThenCopy(L) ==
    LET s == L.s IN
    IF s.jc.uncompressedOffset > s.output.pos
    THEN [L EXCEPT !.s.jc.uncompressedOffset = @ - s.output.pos]
    ELSE LET maxCopy == SizeT((s.output.pos - s.tmpOutBuffPos)
                              - s.jc.uncompressedOffset)
             toCopy == Min(maxCopy, L.toRead)
             from == s.tmpOutBuffPos + s.jc.uncompressedOffset
         IN  [L EXCEPT
                !.outBuff = @ \o [i \in 1..toCopy |-> ByteAt(s.tmpOutBuff, from + i - 1)],
                !.toRead = @ - toCopy,
                !.s.currentUncompressedPos = @ + toCopy,
                !.s.tmpOutBuffPos = @ + toCopy + s.jc.uncompressedOffset,
                !.s.jc.uncompressedOffset = 0]

\* The inner loop: decompress the bound input range (zstd-seek.c:416-445).
RECURSIVE DecompressLoop(_)
DecompressLoop(L) ==
    LET s == L.s
        \* zstd-seek.c:442-444: stop when the request is served.
        Copied(L1) == IF L1.toRead = 0 THEN L1 ELSE DecompressLoop(L1)
        \* zstd-seek.c:419-440, d the outcome of the decompress call.
        Decompressed(d) ==
            LET s1 == [s EXCEPT
                         !.output = [size |-> s.tmpOutBuffSize, pos |-> Len(d.out)],
                         !.tmpOutBuff = d.out,
                         !.tmpOutBuffPos = 0,
                         !.dctx = d.dctx,
                         !.input.pos = d.pos]
                s2 == [s1 EXCEPT !.currentCompressedPos = @ + s1.input.pos]
            IN  IF ZSTD_isError(d.ret)
                THEN [L EXCEPT !.s = s1, !.failed = TRUE]
                ELSE Copied(DiscardThenCopy([L EXCEPT !.s = s2]))
    IN  IF ~(s.input.pos < s.input.size) THEN L
        ELSE Decompressed(ZSTD_decompressStream(s.buff, s.dctx, s.input,
                                                s.tmpOutBuffSize))

\* The outer loop: bind the next frame and decompress (zstd-seek.c:411-454).
RECURSIVE FrameLoop(_)
FrameLoop(L) ==
    IF ~(L.toRead > 0) THEN L
    ELSE
    LET s == L.s
        more == s.input.pos < s.input.size
        \* zstd-seek.c:421-424 and 447-453, L1 the state after the inner loop.
        Decompressed(L1) ==
            IF L1.failed THEN L1
            ELSE LET L2 == IF L1.s.input.pos = L1.s.input.size
                           THEN [L1 EXCEPT !.s.inBuff = @ + L1.s.lastFrameCompressedSize]
                           ELSE L1
                 IN  IF L2.toRead = 0 THEN L2 ELSE FrameLoop(L2)
        \* zstd-seek.c:411-414, s1 the context after the loop condition.
        Body(s1) ==
            IF ~more /\ ~(s1.lastFrameCompressedSize > 0)
            THEN [L EXCEPT !.s = s1]
            ELSE LET s2 == IF s1.input.pos = s1.input.size
                           THEN [s1 EXCEPT
                                   !.input = [src |-> s1.inBuff,
                                              size |-> s1.lastFrameCompressedSize,
                                              pos |-> 0]]
                           ELSE s1
                 IN  Decompressed(DecompressLoop([L EXCEPT !.s = s2]))
    IN  Body(IF more THEN s
             ELSE [s EXCEPT !.lastFrameCompressedSize =
                              ZSTD_findFrameCompressedSize(s.buff, s.inBuff)])

\* Mutant of ZSTDSeek_read: the request is not capped to the indexed part
\* of the stream.
ZSTDSeek_read_NoCap(sctx, outBuffSize) ==
    LET \* zstd-seek.c:421-424 and 456, L2 the state after the loops.
        Return(L2, toRead) ==
            [sctx |-> L2.s,
             ret |-> IF L2.failed THEN SizeT(ZSTDSEEK_ERR_READ)
                     ELSE toRead - L2.toRead,
             out |-> L2.outBuff]
        \* zstd-seek.c:391-454, s0 the context after line 389.
        Body(s0) ==
            LET maxReadable == SizeT(ZSTDSeek_lastKnownUncompressedFileSize(s0)
                                     - s0.currentUncompressedPos)
                toRead == outBuffSize
                L0 == [s |-> s0, toRead |-> toRead, outBuff |-> <<>>,
                       failed |-> FALSE]
            IN  Return(FrameLoop(IF s0.tmpOutBuffPos < s0.output.pos
                                 THEN DiscardThenCopy(L0) ELSE L0),
                       toRead)
        \* zstd-seek.c:389, g the outcome of the lookup.
        Located(g) ==
            Body([g.sctx EXCEPT !.currentCompressedPos = g.jc.jtr.compressedPos])
    IN  Located(ZSTDSeek_getJumpCoordinate(sctx, sctx.currentUncompressedPos))

\* ZSTDSeek_read(outBuff, outBuffSize, sctx): [sctx, ret, out].
ZSTDSeek_read(sctx, outBuffSize) ==
    LET \* zstd-seek.c:421-424 and 456, L2 the state after the loops.
        Return(L2, toRead) ==
            [sctx |-> L2.s,
             ret |-> IF L2.failed THEN SizeT(ZSTDSEEK_ERR_READ)
                     ELSE toRead - L2.toRead,
             out |-> L2.outBuff]
        \* zstd-seek.c:391-454, s0 the context after line 389.
        Body(s0) ==
            LET maxReadable == SizeT(ZSTDSeek_lastKnownUncompressedFileSize(s0)
                                     - s0.currentUncompressedPos)
                toRead == Min(maxReadable, outBuffSize)
                L0 == [s |-> s0, toRead |-> toRead, outBuff |-> <<>>,
                       failed |-> FALSE]
            IN  Return(FrameLoop(IF s0.tmpOutBuffPos < s0.output.pos
                                 THEN DiscardThenCopy(L0) ELSE L0),
                       toRead)
        \* zstd-seek.c:389, g the outcome of the lookup.
        Located(g) ==
            Body([g.sctx EXCEPT !.currentCompressedPos = g.jc.jtr.compressedPos])
    IN  Located(ZSTDSeek_getJumpCoordinate(sctx, sctx.currentUncompressedPos))

(***************************************************************************)
(* ZSTDSeek_seek.                                                          *)
(***************************************************************************)
\* The skip-forward loop (zstd-seek.c:510-513).  hangs: a read delivered
\* nothing and changed nothing, so the loop repeats it forever.  A read that
\* returns ZSTDSEEK_ERR_READ and changes nothing is repeated too, and each
\* time `toSkipTotal -= (size_t)-3` adds 3 to toSkipTotal: as 3 is odd,
\* toSkipTotal runs through every value of size_t and the loop ends when it
\* wraps around to 0, after in the order of 2^64 failed reads, with the
\* reader where the first failure left it.
RECURSIVE SkipForward(_, _)
SkipForward(sctx, toSkipTotal) ==
    IF ~(toSkipTotal > 0) THEN [sctx |-> sctx, hangs |-> FALSE]
    ELSE LET toSkip == Min(OutSize, toSkipTotal)
             Skipped(r) ==
                 IF r.sctx = sctx /\ r.ret = 0
                 THEN [sctx |-> sctx, hangs |-> TRUE]
                 ELSE IF r.sctx = sctx /\ ZSTD_isError(r.ret)
                 THEN [sctx |-> sctx, hangs |-> FALSE]
                 ELSE SkipForward(r.sctx, SizeT(toSkipTotal - r.ret))
         IN  Skipped(ZSTDSeek_read(sctx, toSkip))

\* Mutant of ResetTo: the position is set to the start of the frame
\* instead of the target.
ResetTo_FrameStart(sctx, new_jc, offset) ==
    [sctx EXCEPT !.dctx = FreshDCtx,
                 !.jc = new_jc,
                 !.inBuff = new_jc.compressedOffset,
                 !.currentUncompressedPos = new_jc.jtr.uncompressedPos,
                 !.currentCompressedPos = new_jc.compressedOffset,
                 !.tmpOutBuffPos = 0,
                 !.input = [src |-> new_jc.compressedOffset, size |-> 0, pos |-> 0],
                 !.output = [size |-> 0, pos |-> 0],
                 !.tmpOutBuff = <<>>]

\* The reset path (zstd-seek.c:493-502).
ResetTo(sctx, new_jc, offset) ==
    [sctx EXCEPT !.dctx = FreshDCtx,
                 !.jc = new_jc,
                 !.inBuff = new_jc.compressedOffset,
                 !.currentUncompressedPos = offset,
                 !.currentCompressedPos = new_jc.compressedOffset,
                 !.tmpOutBuffPos = 0,
                 !.input = [src |-> new_jc.compressedOffset, size |-> 0, pos |-> 0],
                 !.output = [size |-> 0, pos |-> 0],
                 !.tmpOutBuff = <<>>]

\* Mutant of SeekBeyondEnd: the bound check off by one.
SeekBeyondEnd_OffByOne(sctx, offset) ==
    offset >= ZSTDSeek_lastKnownUncompressedFileSize(sctx)

\* The bound check of zstd-seek.c:480.
SeekBeyondEnd(sctx, offset) ==
    offset > ZSTDSeek_lastKnownUncompressedFileSize(sctx)

\* The SEEK_SET part (zstd-seek.c:474-516), offset absolute.
SeekSet(sctx, offset) ==
    IF offset < 0 THEN [sctx |-> sctx, ret |-> ZSTDSEEK_ERR_NEGATIVE_SEEK, hangs |-> FALSE]
    ELSE
    LET \* zstd-seek.c:515, k the outcome of the skip-forward loop.
        Skipped(k) == [sctx |-> k.sctx, ret |-> 0, hangs |-> k.hangs]
        \* zstd-seek.c:492-515, g the outcome of the lookup of line 490.
        Located(g) ==
            LET s2 == g.sctx
                new_jc == g.jc
            IN  IF s2.jc.compressedOffset # new_jc.compressedOffset
                   \/ offset < s2.currentUncompressedPos
                THEN [sctx |-> ResetTo(s2, new_jc, offset), ret |-> 0,
                      hangs |-> FALSE]
                ELSE Skipped(SkipForward(s2, offset - s2.currentUncompressedPos))
        \* zstd-seek.c:480-490, s1 the context after the lookup of line 479.
        Checked(s1) ==
            IF offset > 0 /\ SeekBeyondEnd(s1, offset)
            THEN [sctx |-> s1, ret |-> ZSTDSEEK_ERR_BEYOND_END_SEEK, hangs |-> FALSE]
            ELSE IF offset = s1.currentUncompressedPos
            THEN [sctx |-> s1, ret |-> 0, hangs |-> FALSE]
            ELSE Located(ZSTDSeek_getJumpCoordinate(s1, offset))
    IN  Checked(IF offset > 0
                THEN ZSTDSeek_getJumpCoordinate(
                         sctx, SizeT(sctx.currentUncompressedPos + offset)).sctx
                ELSE sctx)

\* ZSTDSeek_seek(sctx, offset, origin): [sctx, ret, hangs].
ZSTDSeek_seek(sctx, offset, origin) ==
    IF origin = SEEK_CUR
    THEN IF offset = 0 THEN [sctx |-> sctx, ret |-> 0, hangs |-> FALSE]
         ELSE SeekSet(sctx, sctx.currentUncompressedPos + offset)
    ELSE IF origin = SEEK_END
    THEN LET FromEnd(u) == SeekSet(u.sctx, u.ret + offset)
         IN  FromEnd(ZSTDSeek_uncompressedFileSize(sctx))
    ELSE IF origin = SEEK_SET THEN SeekSet(sctx, offset)
    ELSE [sctx |-> sctx, ret |-> -1, hangs |-> FALSE]

(***************************************************************************)
(* Construction and destruction with the resources they hold.              *)
(* os is what the process holds and what the caller starts from:           *)
(*   origin   what the caller constructs the reader from: a "path", a      *)
(*            "descriptor" the caller has opened, or a "buffer"            *)
(*   file     the image behind the path, the descriptor or the buffer      *)
(*   fd       "open" or "closed": the descriptor of the file               *)
(*   mapping  "mapped" or "unmapped": the memory map of the file           *)
(*   heap     the live allocations of the reader                           *)
(*   errno    "none", or the failure of open ("ENOENT") or mmap ("ENOMEM") *)
(*   fault    "none", or what a dereference of a null pointer did: the     *)
(*            process was killed ("SIGSEGV") or read whatever is mapped    *)
(*            at that address ("wild read")                                *)
(***************************************************************************)
NULL == [null |-> TRUE]

\* The descriptor open() returns, or the one the caller passes.
OpenedFd == 3

\* The allocations of ZSTDSeek_createWithoutJumpTable (zstd-seek.c:331-361).
Allocations == {"sctx", "dctx", "jt", "tmpOutBuff"}

\* ZSTDSeek_free(sctx): the resources after it.
ZSTDSeek_free(sctx, os) ==
    IF sctx = NULL THEN os
    ELSE LET owned == sctx.mmap_fd >= 0 /\ sctx.close_fd = 1
         IN  [os EXCEPT !.heap = @ \ Allocations,
                        !.mapping = IF owned THEN "unmapped" ELSE @,
                        !.fd = IF owned THEN "closed" ELSE @]

\* Mutant of CreateWithoutJumpTable: the first frame is not probed.
CreateWithoutJumpTable_NoProbe(buff, os) ==
    [sctx |-> ZSTDSeek_createWithoutJumpTable(buff),
     os |-> [os EXCEPT !.heap = @ \cup Allocations]]

\* ZSTDSeek_createWithoutJumpTable with its resources: [sctx, os].
CreateWithoutJumpTable(buff, os) ==
    LET sctx == ZSTDSeek_createWithoutJumpTable(buff)
        allocated == [os EXCEPT !.heap = @ \cup Allocations]
    IN  IF ZSTD_isError(ZSTD_findFrameCompressedSize(buff, 0))
        THEN [sctx |-> NULL, os |-> ZSTDSeek_free(sctx, allocated)]
        ELSE [sctx |-> sctx, os |-> allocated]

\* The step that ZSTDSeek_create, ZSTDSeek_createFromFile and
\* ZSTDSeek_createFromFileDescriptor add to the lazy construction c.
WithJumpTable(c) ==
    IF c.sctx = NULL THEN c
    ELSE LET Initialized(i) ==
                 IF i.ret # 0
                 THEN [sctx |-> NULL, os |-> ZSTDSeek_free(i.sctx, c.os)]
                 ELSE [sctx |-> i.sctx, os |-> c.os]
         IN  Initialized(ZSTDSeek_initializeJumpTable(c.sctx))

\* openOk, mmapOk: whether open() and mmap() succeed.
ZSTDSeek_createFromFileWithoutJumpTable(os, openOk, mmapOk) ==
    IF ~openOk THEN [sctx |-> NULL, os |-> [os EXCEPT !.errno = "ENOENT"]]
    ELSE IF ~mmapOk
    THEN [sctx |-> NULL, os |-> [os EXCEPT !.fd = "open", !.errno = "ENOMEM"]]
    ELSE LET Created(c) ==
                 IF c.sctx # NULL
                 THEN [sctx |-> [c.sctx EXCEPT !.mmap_fd = OpenedFd, !.close_fd = 1],
                       os |-> c.os]
                 ELSE [sctx |-> NULL,
                       os |-> [c.os EXCEPT !.mapping = "unmapped", !.fd = "closed"]]
         IN  Created(CreateWithoutJumpTable(
                         os.file, [os EXCEPT !.fd = "open", !.mapping = "mapped"]))

ZSTDSeek_createFromFile(os, openOk, mmapOk) ==
    WithJumpTable(ZSTDSeek_createFromFileWithoutJumpTable(os, openOk, mmapOk))

ZSTDSeek_createFromFileDescriptorWithoutJumpTable(os, mmapOk) ==
    IF ~mmapOk THEN [sctx |-> NULL, os |-> [os EXCEPT !.errno = "ENOMEM"]]
    ELSE LET Created(c) ==
                 IF c.sctx # NULL
                 THEN [sctx |-> [c.sctx EXCEPT !.mmap_fd = OpenedFd, !.close_fd = 0],
                       os |-> c.os]
                 ELSE [sctx |-> NULL,
                       os |-> [c.os EXCEPT !.mapping = "unmapped", !.fd = "closed"]]
         IN  Created(CreateWithoutJumpTable(os.file, [os EXCEPT !.mapping = "mapped"]))

ZSTDSeek_createFromFileDescriptor(os, mmapOk) ==
    WithJumpTable(ZSTDSeek_createFromFileDescriptorWithoutJumpTable(os, mmapOk))

\* The operations of zstd-seek.h that take a reader.
PublicOperations ==
    {"read", "seek", "tell", "compressedTell", "uncompressedFileSize",
     "lastKnownUncompressedFileSize", "initializeJumpTable",
     "initializeJumpTableUpUntilPos", "jumpTableIsInitialized",
     "getJumpTableOfContext", "fileno", "countFramesUpTo", "getNumberOfFrames",
     "isMultiframe", "free"}

\* The operations that test `!sctx` before they use sctx, themselves or in
\* the function they pass sctx to.
NullChecked ==
    PublicOperations \ {"jumpTableIsInitialized", "fileno"}

\* What a null-checked operation returns for a null reader (0 for the null
\* pointer of getJumpTableOfContext and for free, which returns nothing).
NullSentinel(f) ==
    IF f \in {"seek", "tell", "compressedTell", "initializeJumpTable",
              "initializeJumpTableUpUntilPos"}
    THEN -1
    ELSE 0

\* What a dereference of the null reader does.
NullDereference == {"SIGSEGV", "wild read"}

(***************************************************************************)
(* Frame counting (zstd-seek.c:567-597): [sctx, ret].  The loop walks the  *)
(* image with a pointer of its own and leaves the context alone.           *)
(***************************************************************************)
RECURSIVE CountFrames(_, _, _, _)
CountFrames(src, pos, counter, upTo) ==
    LET Found(frameCompressedSize) ==
            IF ~(frameCompressedSize > 0 /\ ~ZSTD_isError(frameCompressedSize))
            THEN counter
            ELSE IF counter + 1 >= upTo THEN upTo
            ELSE CountFrames(src, pos + frameCompressedSize, counter + 1, upTo)
    IN  Found(ZSTD_findFrameCompressedSize(src, pos))

ZSTDSeek_countFramesUpTo(sctx, upTo) ==
    [sctx |-> sctx, ret |-> CountFrames(sctx.buff, 0, 0, upTo)]

ZSTDSeek_getNumberOfFrames(sctx) == ZSTDSeek_countFramesUpTo(sctx, SIZE_MAX)

ZSTDSeek_isMultiframe(sctx) ==
    [sctx |-> sctx,
     ret |-> IF ZSTDSeek_countFramesUpTo(sctx, 2).ret > 1 THEN 1 ELSE 0]

(***************************************************************************)
(* The read loop of the decompressor example (examples/decompressor.c:     *)
(* 56-62): read BUFFSIZE bytes at a time and write what was read, until    *)
(* read returns 0.  [sctx, written, overread]; overread: read returned an  *)
(* error code, which the loop takes for a byte count larger than buff.     *)
(***************************************************************************)
RECURSIVE DecompressorLoop(_, _, _)
DecompressorLoop(sctx, BUFFSIZE, written) ==
    LET Got(r) ==
            IF ~(r.ret > 0)
            THEN [sctx |-> r.sctx, written |-> written, overread |-> FALSE]
            ELSE IF ZSTD_isError(r.ret)
            THEN [sctx |-> r.sctx, written |-> written, overread |-> TRUE]
            ELSE DecompressorLoop(r.sctx, BUFFSIZE, written \o r.out)
    IN  Got(ZSTDSeek_read(sctx, BUFFSIZE))

(***************************************************************************)
(* The state machine: one reader over one source, driven by its caller.    *)
(*   sctx  the reader context                                              *)
(*   last  the last call: the function ("create" and                       *)
(*         "createWithoutJumpTable" for the eager and the lazy             *)
(*         construction), what it returned, the bytes a read copied to the *)
(*         caller, and whether the call failed to return                   *)
(*   os    the resources of the process (see above)                        *)
(***************************************************************************)
VARIABLES sctx, last, os

vars == <<sctx, last, os>>

Call(op, ret, out, hangs) == [op |-> op, ret |-> ret, out |-> out, hangs |-> hangs]

\* An origin that is none of SEEK_SET, SEEK_CUR, SEEK_END.
INVALID_ORIGIN == SEEK_END + 1
Origins == {SEEK_SET, SEEK_CUR, SEEK_END, INVALID_ORIGIN}

\* The absolute targets a caller seeks to: from one before the start to one
\* past the true end of the stream.
Targets(s) == -1 .. TotalUncompressed(s.buff) + 1

\* The offset that names the absolute target a from the given origin.
OffsetFor(s, a, origin) ==
    IF origin = SEEK_CUR THEN a - s.currentUncompressedPos
    ELSE IF origin = SEEK_END THEN a - TotalUncompressed(s.buff)
    ELSE a

\* Every (offset, origin) pair that names one of the targets.
SeekArgs(s) == {<<OffsetFor(s, a, origin), origin>> : a \in Targets(s), origin \in Origins}

\* The (offset, origin) pairs the caller of the model passes to seek: every
\* target from SEEK_SET, the neighbouring targets from SEEK_CUR and SEEK_END,
\* and an invalid origin.
CallerSeekArgs(s) ==
    {<<a, SEEK_SET>> : a \in Targets(s)}
    \cup {<<a, origin>> : a \in {-1, 0, 1}, origin \in {SEEK_CUR, SEEK_END, INVALID_ORIGIN}}

ReadSizes == 0 .. MaxRead

\* The resources before construction.
InitialOS(origin, src) ==
    [origin |-> origin, file |-> src,
     fd |-> IF origin = "descriptor" THEN "open" ELSE "closed",
     mapping |-> "unmapped", heap |-> {}, errno |-> "none", fault |-> "none"]

\* A reader constructed over a buffer that holds one of the sources S.
InitOver(S) ==
    \E src \in S, lazy \in BOOLEAN :
        /\ CreateSucceeds(src, lazy)
        /\ sctx = IF lazy THEN ZSTDSeek_createWithoutJumpTable(src)
                  ELSE ZSTDSeek_create(src)
        /\ last = Call(IF lazy THEN "createWithoutJumpTable" ELSE "create",
                       0, <<>>, FALSE)
        /\ os = [InitialOS("buffer", src) EXCEPT !.heap = Allocations]

Init == InitOver(Sources)

Read(n) ==
    /\ ~last.hangs
    /\ LET Returns(r) ==
               /\ Len(r.sctx.jt) <= MaxRecords
               /\ sctx' = r.sctx
               /\ UNCHANGED os
               /\ last' = Call("read", r.ret, r.out, FALSE)
       IN  Returns(ZSTDSeek_read(sctx, n))

Seek(offset, origin) ==
    /\ ~last.hangs
    /\ LET Returns(r) ==
               /\ Len(r.sctx.jt) <= MaxRecords
               /\ sctx' = r.sctx
               /\ UNCHANGED os
               /\ last' = Call("seek", r.ret, <<>>, r.hangs)
       IN  Returns(ZSTDSeek_seek(sctx, offset, origin))

UncompressedFileSize ==
    /\ ~last.hangs
    /\ LET Returns(r) ==
               /\ Len(r.sctx.jt) <= MaxRecords
               /\ sctx' = r.sctx
               /\ UNCHANGED os
               /\ last' = Call("uncompressedFileSize", r.ret, <<>>, FALSE)
       IN  Returns(ZSTDSeek_uncompressedFileSize(sctx))

LastKnownUncompressedFileSize ==
    /\ ~last.hangs
    /\ last' = Call("lastKnownUncompressedFileSize",
                    ZSTDSeek_lastKnownUncompressedFileSize(sctx), <<>>, FALSE)
    /\ UNCHANGED <<sctx, os>>

InitializeJumpTable ==
    /\ ~last.hangs
    /\ LET Returns(r) ==
               /\ Len(r.sctx.jt) <= MaxRecords
               /\ sctx' = r.sctx
               /\ UNCHANGED os
               /\ last' = Call("initializeJumpTable", r.ret, <<>>, FALSE)
       IN  Returns(ZSTDSeek_initializeJumpTable(sctx))

InitializeJumpTableUpUntilPos(upUntilPos) ==
    /\ ~last.hangs
    /\ LET Returns(r) ==
               /\ Len(r.sctx.jt) <= MaxRecords
               /\ sctx' = r.sctx
               /\ UNCHANGED os
               /\ last' = Call("initializeJumpTableUpUntilPos", r.ret, <<>>, FALSE)
       IN  Returns(ZSTDSeek_initializeJumpTableUpUntilPos(sctx, upUntilPos))

Next ==
    \/ \E n \in ReadSizes : Read(n)
    \/ \E arg \in CallerSeekArgs(sctx) : Seek(arg[1], arg[2])
    \/ UncompressedFileSize
    \/ LastKnownUncompressedFileSize
    \/ InitializeJumpTable
    \/ \E p \in 0..TotalUncompressed(sctx.buff) : InitializeJumpTableUpUntilPos(p)

Spec == Init /\ [][Next]_vars

(***************************************************************************)
(* The same reader and caller over a source with a defect.                 *)
(***************************************************************************)
InitDamaged == InitOver(DamagedSources)

SpecDamaged == InitDamaged /\ [][Next]_vars

(***************************************************************************)
(* The life of a reader: the caller holds a path, a descriptor or a        *)
(* buffer, constructs a reader from it, may call the operations with the   *)
(* null reader a failed construction returned, and frees what it got.      *)
(***************************************************************************)
ReaderOrigins == {"path", "descriptor", "buffer"}

InitLifecycle ==
    \E src \in Sources \cup DamagedSources, origin \in ReaderOrigins :
        /\ sctx = NULL
        /\ last = Call("none", 0, <<>>, FALSE)
        /\ os = InitialOS(origin, src)

\* One of the six constructors, the one for os.origin.
Construct(lazy, openOk, mmapOk) ==
    /\ last.op = "none"
    /\ LET Returns(name, c) ==
               /\ sctx' = c.sctx
               /\ os' = c.os
               /\ last' = Call(name, 0, <<>>, FALSE)
       IN  IF os.origin = "path"
           THEN IF lazy
                THEN Returns("createFromFileWithoutJumpTable",
                             ZSTDSeek_createFromFileWithoutJumpTable(os, openOk, mmapOk))
                ELSE Returns("createFromFile",
                             ZSTDSeek_createFromFile(os, openOk, mmapOk))
           ELSE IF os.origin = "descriptor"
           THEN IF lazy
                THEN Returns("createFromFileDescriptorWithoutJumpTable",
                             ZSTDSeek_createFromFileDescriptorWithoutJumpTable(os, mmapOk))
                ELSE Returns("createFromFileDescriptor",
                             ZSTDSeek_createFromFileDescriptor(os, mmapOk))
           ELSE IF lazy
                THEN Returns("createWithoutJumpTable",
                             CreateWithoutJumpTable(os.file, os))
                ELSE Returns("create",
                             WithJumpTable(CreateWithoutJumpTable(os.file, os)))

\* An operation called with the null reader.
CallOnNull(f) ==
    /\ sctx = NULL
    /\ last.op # "none"
    /\ os.fault = "none"
    /\ IF f \in NullChecked
       THEN /\ last' = Call(f, NullSentinel(f), <<>>, FALSE)
            /\ UNCHANGED <<sctx, os>>
       ELSE \E outcome \in NullDereference :
            /\ last' = Call(f, Garbage, <<>>, FALSE)
            /\ os' = [os EXCEPT !.fault = outcome]
            /\ UNCHANGED sctx

\* ZSTDSeek_free on the reader a constructor returned; the caller forgets
\* the pointer.
Free ==
    /\ sctx # NULL
    /\ os' = ZSTDSeek_free(sctx, os)
    /\ sctx' = NULL
    /\ last' = Call("free", 0, <<>>, FALSE)

NextLifecycle ==
    \/ \E lazy, openOk, mmapOk \in BOOLEAN : Construct(lazy, openOk, mmapOk)
    \/ \E f \in PublicOperations : CallOnNull(f)
    \/ Free

SpecLifecycle == InitLifecycle /\ [][NextLifecycle]_vars

(***************************************************************************)
(* The index builder over sources with a malformed trailer: a lazy reader  *)
(* (its construction does not look at the trailer) and the calls of the    *)
(* index builder.                                                          *)
(***************************************************************************)
InitMalformed ==
    \E src \in MalformedSources :
        /\ CreateSucceeds(src, TRUE)
        /\ sctx = ZSTDSeek_createWithoutJumpTable(src)
        /\ last = Call("createWithoutJumpTable", 0, <<>>, FALSE)
        /\ os = [InitialOS("buffer", src) EXCEPT !.heap = Allocations]

\* The values of upUntilPos: the positions of the stream and SIZE_MAX.
UpUntilPositions == (0 .. TotalUncompressed(sctx.buff)) \cup {SIZE_MAX}

BuildIndex(upUntilPos) ==
    /\ os.fault = "none"
    /\ IF IndexBuilderFaults(sctx)
       THEN /\ os' = [os EXCEPT !.fault = "SIGSEGV"]
            /\ last' = Call("initializeJumpTableUpUntilPos", Garbage, <<>>, FALSE)
            /\ UNCHANGED sctx
       ELSE LET Returns(r) ==
                    /\ sctx' = r.sctx
                    /\ UNCHANGED os
                    /\ last' = Call("initializeJumpTableUpUntilPos", r.ret,
                                    <<>>, FALSE)
            IN  Returns(ZSTDSeek_initializeJumpTableUpUntilPos(sctx, upUntilPos))

NextMalformed == \E p \in UpUntilPositions : BuildIndex(p)

SpecMalformed == InitMalformed /\ [][NextMalformed]_vars

(***************************************************************************)
(* The import of a seek table over sources with frames so large that the   *)
(* totals pass what uint32_t holds (every single size fits, as the format  *)
(* demands): readers over such sources and the operations that run the     *)
(* import.  Nothing is decompressed.                                       *)
(***************************************************************************)
HugeFrame == Frame(UInt32Modulus \div 2 + 8, UInt32Modulus \div 2 + 8, TRUE, FALSE)

WideSources ==
    [frames : UNION {[1..n -> FrameKinds \cup {HugeFrame}] : n \in 1..MaxFrames},
     trailer : {"valid"}, pastEnd : PastEndOutcomes, damage : {NoDamage}]

InitImport == InitOver(WideSources)

NextImport ==
    \/ InitializeJumpTable
    \/ UncompressedFileSize
    \/ LastKnownUncompressedFileSize

SpecImport == InitImport /\ [][NextImport]_vars

(***************************************************************************)
(* The lookup on its own: readers over sources of up to MaxLocateFrames    *)
(* frames of 1..MaxFrameSize bytes, and the positions read and seek look   *)
(* up (zstd-seek.c:389, 479, 490).                                         *)
(***************************************************************************)
LocateFrames == {Frame(10, u, TRUE, FALSE) : u \in 1..MaxFrameSize}

LocateSources ==
    [frames : UNION {[1..n -> LocateFrames] : n \in 1..MaxLocateFrames},
     trailer : {"none"}, pastEnd : PastEndOutcomes, damage : {NoDamage}]

InitLocate == InitOver(LocateSources)

\* Positions looked up: read looks up tell(), seek the target and
\* tell() + offset.
LocateTargets == 0 .. TotalUncompressed(sctx.buff) + 1

GetJumpCoordinate(uncompressedPos) ==
    LET Returns(g) ==
            /\ sctx' = g.sctx
            /\ UNCHANGED os
            /\ last' = Call("getJumpCoordinate", g.jc, <<>>, FALSE)
    IN  Returns(ZSTDSeek_getJumpCoordinate(sctx, uncompressedPos))

NextLocate == \E p \in LocateTargets : GetJumpCoordinate(p)

SpecLocate == InitLocate /\ [][NextLocate]_vars

(***************************************************************************)
(* Properties.  A property about a call is stated over every reachable     *)
(* state of the reader and every argument the caller may pass next: the    *)
(* call is applied to the state and its result is examined.                *)
(***************************************************************************)
\* The true size of the uncompressed stream of the reader's source.
Total == TotalUncompressed(sctx.buff)

\* The part of a context that read and seek work on: everything but the
\* jump table and its fullyInitialized flag.
DecodingState(s) == [s EXCEPT !.jt = <<>>, !.jumpTableFullyInitialized = 0]

\* The seek took the skip-forward path: it staged bytes by internal reads
\* (the reset path leaves the staging buffer empty).
SkippedForward(k) == k.ret = 0 /\ k.sctx.output.pos > 0
\* The seek took the reset path to a new position.
WasReset(s, k) ==
    /\ k.ret = 0
    /\ k.sctx.currentUncompressedPos # s.currentUncompressedPos
    /\ k.sctx.output.pos = 0

\* C1: after a successful seek(p, SEEK_SET), whatever calls came before, the
\* next read(n) delivers exactly the ground-truth bytes at offsets
\* [p, p + min(n, total - p)) and returns their number.
C1_SeekThenReadIsGroundTruth ==
    \A p \in 0 .. Total, n \in ReadSizes :
        LET k == ZSTDSeek_seek(sctx, p, SEEK_SET) IN
        (k.ret = 0 /\ ~k.hangs) =>
            LET r == ZSTDSeek_read(k.sctx, n) IN
            /\ r.out = GroundTruth(p, Min(n, Total - p))
            /\ r.ret = Len(r.out)

\* C2: a read that does not return an error returns exactly
\* min(n, totalUncompressedSize - tell()) bytes, so fewer than n only at the
\* true end of the stream.
C2_ShortReadOnlyAtEnd ==
    \A n \in ReadSizes :
        LET r == ZSTDSeek_read(sctx, n) IN
        ~ZSTD_isError(r.ret) => r.ret = Min(n, Total - ZSTDSeek_tell(sctx))

\* C3: whenever seek(p, SEEK_SET) returns 0, tell() = p right after it, on
\* the reset path and on the skip-forward path.
C3_TellLocality ==
    \A p \in Targets(sctx) :
        LET k == ZSTDSeek_seek(sctx, p, SEEK_SET) IN
        k.ret = 0 => (~k.hangs /\ ZSTDSeek_tell(k.sctx) = p)

\* Witness of C3: a seek has returned 0 and left the reader inside the
\* stream, and from there one SEEK_SET seek succeeds by skipping forward and
\* another by resetting the session.
C3_Witness ==
    /\ last.op = "seek" /\ last.ret = 0
    /\ sctx.currentUncompressedPos > 0
    /\ \E p \in Targets(sctx) : SkippedForward(ZSTDSeek_seek(sctx, p, SEEK_SET))
    /\ \E p \in Targets(sctx) : WasReset(sctx, ZSTDSeek_seek(sctx, p, SEEK_SET))

\* What seek has to return for the absolute target a named from origin.
SeekResult(a, origin) ==
    IF origin = INVALID_ORIGIN THEN -1
    ELSE IF a < 0 THEN ZSTDSEEK_ERR_NEGATIVE_SEEK
    ELSE IF a > Total THEN ZSTDSEEK_ERR_BEYOND_END_SEEK
    ELSE 0

\* C4: with a the absolute target, seek returns NegativeSeek when a < 0,
\* BeyondEnd when a is larger than the true size of the stream, 0 when
\* 0 <= a <= total, from each origin and also when the index does not yet
\* cover a; an origin outside SEEK_SET, SEEK_CUR, SEEK_END returns an error.
C4_SeekClassification ==
    \A a \in Targets(sctx), origin \in Origins :
        LET k == ZSTDSeek_seek(sctx, OffsetFor(sctx, a, origin), origin) IN
        k.ret = SeekResult(a, origin) /\ ~k.hangs

\* Witness of C4: a seek has been rejected as negative on a reader whose
\* index covers only a part of the stream, and a target beyond the indexed
\* part is accepted from there.
C4_Witness ==
    /\ last.op = "seek" /\ last.ret = ZSTDSEEK_ERR_NEGATIVE_SEEK
    /\ sctx.jumpTableFullyInitialized = 0
    /\ Len(sctx.jt) > 0
    /\ ZSTDSeek_lastKnownUncompressedFileSize(sctx) < Total
    /\ ZSTDSeek_seek(sctx, Total, SEEK_SET).ret = 0
    /\ ZSTDSeek_seek(sctx, Total + 1, SEEK_SET).ret = ZSTDSEEK_ERR_BEYOND_END_SEEK

\* C5: a seek that returns an error changes neither tell() nor
\* compressedTell() nor anything else of the decoding state, and every read
\* after it returns what it would have returned without the seek.
C5_FailedSeekIsInvisible ==
    \A arg \in SeekArgs(sctx) :
        LET k == ZSTDSeek_seek(sctx, arg[1], arg[2]) IN
        k.ret # 0 =>
            /\ ZSTDSeek_tell(k.sctx) = ZSTDSeek_tell(sctx)
            /\ ZSTDSeek_compressedTell(k.sctx) = ZSTDSeek_compressedTell(sctx)
            /\ DecodingState(k.sctx) = DecodingState(sctx)
            /\ \A n \in ReadSizes :
                 LET with == ZSTDSeek_read(k.sctx, n)
                     without == ZSTDSeek_read(sctx, n)
                 IN  with.ret = without.ret /\ with.out = without.out

StrictlyIncreasing(jt) ==
    \A i \in 1 .. Len(jt) - 1 :
        /\ jt[i].compressedPos < jt[i + 1].compressedPos
        /\ jt[i].uncompressedPos < jt[i + 1].uncompressedPos

\* C6: in every reachable state the records of the jump table are strictly
\* increasing in compressedPos and in uncompressedPos.
C6_MonotoneIndex == StrictlyIncreasing(sctx.jt)

\* C7: whenever the jump table is fully initialized, its last record is
\* (compressed length of the source, uncompressed length of the stream).
C7_SentinelRecord ==
    sctx.jumpTableFullyInitialized = 1 =>
        LastRecord(sctx.jt) = ZSTDSeek_JumpTableRecord(ImageSize(sctx.buff), Total)

\* C8: for a source with a well-formed, truthful seek table, the records
\* imported from the seek table are the records a full linear scan of the
\* same image produces, the sentinel included.
C8_CrossStrategyAgreement ==
    (last.op = "create" /\ SeekTableDetected(sctx.buff)) =>
        sctx.jt = LinearScan(ZSTDSeek_createWithoutJumpTable(sctx.buff), SIZE_MAX).sctx.jt

\* C9: uncompressedFileSize(), called in any reachable state, returns the
\* sum of the uncompressed sizes of all frames, leaves the jump table fully
\* initialized and leaves tell() and the decoding state alone;
\* lastKnownUncompressedFileSize() returns the last record's uncompressed
\* position (0 for an empty table) and extends nothing.
C9_UncompressedFileSize ==
    /\ [](LET u == ZSTDSeek_uncompressedFileSize(sctx) IN
            /\ u.ret = Total
            /\ u.sctx.jumpTableFullyInitialized = 1
            /\ ZSTDSeek_tell(u.sctx) = ZSTDSeek_tell(sctx)
            /\ DecodingState(u.sctx) = DecodingState(sctx))
    /\ [][last'.op = "lastKnownUncompressedFileSize" =>
            /\ sctx' = sctx
            /\ last'.ret = IF Len(sctx.jt) = 0 THEN 0
                           ELSE sctx.jt[Len(sctx.jt)].uncompressedPos]_vars

\* Witness of C9: uncompressedFileSize() has been called in the middle of
\* the stream on an index that was partially built, and has returned the
\* size of a stream of several frames.
C9_Witness ==
    /\ last.op = "uncompressedFileSize" /\ last.ret = Total
    /\ sctx.currentUncompressedPos > 0
    /\ sctx.currentUncompressedPos < Total
    /\ Len(sctx.buff.frames) > 1
    /\ ~SeekTableDetected(sctx.buff)
    /\ sctx.jumpTableFullyInitialized = 1

\* C10: seek(tell(), SEEK_SET) and seek(0, SEEK_CUR) return 0 and preserve
\* the decoder state, so the reads after them return what they would return
\* without the seek.
C10_IdentitySeek ==
    \A arg \in {<<ZSTDSeek_tell(sctx), SEEK_SET>>, <<0, SEEK_CUR>>} :
        LET k == ZSTDSeek_seek(sctx, arg[1], arg[2]) IN
        /\ k.ret = 0 /\ ~k.hangs
        /\ DecodingState(k.sctx) = DecodingState(sctx)
        /\ \A n \in ReadSizes :
             LET with == ZSTDSeek_read(k.sctx, n)
                 without == ZSTDSeek_read(sctx, n)
             IN  with.ret = without.ret /\ with.out = without.out

\* Two seeks agree: same return value, same position afterwards, and the
\* next read returns the same from either.
SameSeek(k1, k2) ==
    /\ k1.ret = k2.ret
    /\ k1.hangs = k2.hangs
    /\ ZSTDSeek_tell(k1.sctx) = ZSTDSeek_tell(k2.sctx)
    /\ \A n \in ReadSizes :
         LET r1 == ZSTDSeek_read(k1.sctx, n)
             r2 == ZSTDSeek_read(k2.sctx, n)
         IN  r1.ret = r2.ret /\ r1.out = r2.out

\* C11: in every reachable state seek(o, SEEK_CUR) agrees with
\* seek(tell() + o, SEEK_SET) and seek(o, SEEK_END) agrees with
\* seek(total + o, SEEK_SET), total the true size of the stream: same return
\* value, same position, same results of the reads that follow.
C11_OriginTranslation ==
    \A a \in Targets(sctx) :
        /\ SameSeek(ZSTDSeek_seek(sctx, a - ZSTDSeek_tell(sctx), SEEK_CUR),
                    ZSTDSeek_seek(sctx, a, SEEK_SET))
        /\ SameSeek(ZSTDSeek_seek(sctx, a - Total, SEEK_END),
                    ZSTDSeek_seek(sctx, a, SEEK_SET))

\* C12: on a lazily created reader, reading n > 0 bytes at a time from
\* position 0 until read returns 0 stops at the end of the stream, and the
\* bytes delivered are the whole uncompressed stream, also when the source
\* has frames of zero uncompressed length.
C12_SequentialReadToEnd ==
    last.op = "createWithoutJumpTable" =>
        \A n \in 1 .. MaxRead :
            LET d == DecompressorLoop(sctx, n, <<>>) IN
            /\ ~d.overread
            /\ ZSTDSeek_tell(d.sctx) = Total
            /\ d.written = GroundTruth(0, Total)

\* C13: every public operation that takes a reader, called with a null
\* reader, returns its sentinel value and does not dereference the pointer.
C13_NullReaderTolerance ==
    (sctx = NULL /\ last.op \in PublicOperations) =>
        /\ os.fault = "none"
        /\ last.ret = NullSentinel(last.op)

Constructors ==
    {"create", "createWithoutJumpTable", "createFromFile",
     "createFromFileWithoutJumpTable", "createFromFileDescriptor",
     "createFromFileDescriptorWithoutJumpTable"}

LazyConstructors ==
    {"createWithoutJumpTable", "createFromFileWithoutJumpTable",
     "createFromFileDescriptorWithoutJumpTable"}

\* The frame-size probe of the first frame of the file reports an error.
ProbeFails == ZSTD_isError(ZSTD_findFrameCompressedSize(os.file, 0))

\* Initializing the index of a reader over the file fails.
IndexFails ==
    ZSTDSeek_initializeJumpTable(ZSTDSeek_createWithoutJumpTable(os.file)).ret # 0

\* C14: when open and mmap succeed, a constructor returns no reader exactly
\* when the probe of the first frame reports an error or, for the eager
\* constructors, when the index initialization fails; a reader that is
\* returned has tell() = 0, compressedTell() = 0 and a fresh session, and
\* from a lazy constructor an empty jump table that is not fully initialized.
C14_ConstructionAcceptance ==
    (last.op \in Constructors /\ os.errno = "none") =>
        /\ (sctx = NULL) <=>
               (ProbeFails \/ (last.op \notin LazyConstructors /\ IndexFails))
        /\ sctx # NULL =>
               /\ ZSTDSeek_tell(sctx) = 0
               /\ ZSTDSeek_compressedTell(sctx) = 0
               /\ sctx.dctx = FreshDCtx
               /\ last.op \in LazyConstructors =>
                      /\ sctx.jt = <<>>
                      /\ ZSTDSeek_jumpTableIsInitialized(sctx) = 0

\* Witness of C14: an eager constructor has mapped a file whose first frame
\* passes the probe, and has returned no reader because the index could not
\* be initialized.
C14_Witness ==
    /\ last.op = "createFromFile"
    /\ os.errno = "none"
    /\ ~ProbeFails
    /\ IndexFails
    /\ sctx = NULL

\* C15: after free and after every failed construction the reader holds
\* nothing of what it acquired and has released nothing of the caller's:
\* no allocation is live and no mapping is left; the descriptor is closed
\* when the reader opened it from a path, and still open when the caller
\* passed it.
C15_ResourceOwnership ==
    (last.op = "free" \/ (last.op \in Constructors /\ sctx = NULL)) =>
        /\ os.heap = {}
        /\ os.mapping = "unmapped"
        /\ os.fd = IF os.origin = "descriptor" THEN "open" ELSE "closed"

\* The first stream position the damaged frame of the source cannot deliver
\* (its first byte when the header is damaged, the first byte of the decode
\* call that fails when the body is), and the position after its last byte.
FirstLostByte ==
    LET d == sctx.buff.damage
        fr == ImageFrames(sctx.buff)
    IN  UncompStart(fr, d.frame)
        + (IF d.kind = "header" THEN 0
           ELSE (DecodeCalls(fr[d.frame], OutSize) - 1) * OutSize)

DamagedFrameEnd ==
    LET d == sctx.buff.damage
        fr == ImageFrames(sctx.buff)
    IN  UncompStart(fr, d.frame) + fr[d.frame].usize

\* A read of n bytes from the current position needs bytes that the
\* damaged frame cannot deliver.
NeedsLostBytes(n) ==
    /\ sctx.buff.damage # NoDamage
    /\ ZSTDSeek_tell(sctx) < DamagedFrameEnd
    /\ ZSTDSeek_tell(sctx) + n > FirstLostByte

\* C16: a read that needs bytes of a corrupt frame returns ReadError, on
\* eager and on lazy readers; it never returns 0 or a short count.
C16_CorruptionIsReadError ==
    \A n \in 1..MaxRead :
        NeedsLostBytes(n) =>
            ZSTDSeek_read(sctx, n).ret = SizeT(ZSTDSEEK_ERR_READ)

\* The compressed offset of the decoder's input cursor: the base of the
\* bound input range plus the bytes of it consumed so far.
InputCursor == sctx.input.src + sctx.input.pos

\* C17: after a successful read or seek compressedTell() is the compressed
\* offset of the decoder's input cursor, and never more than the compressed
\* length of the source.
C17_CompressedTell ==
    (last.op \in {"read", "seek"} /\ ~last.hangs
        /\ last.ret >= 0 /\ ~ZSTD_isError(last.ret)) =>
        /\ ZSTDSeek_compressedTell(sctx) = InputCursor
        /\ ZSTDSeek_compressedTell(sctx) <= ImageSize(sctx.buff)

\* The values a seek may return: 0 and the error codes.
SeekReturns ==
    {0, -1, ZSTDSEEK_ERR_NEGATIVE_SEEK, ZSTDSEEK_ERR_BEYOND_END_SEEK,
     ZSTDSEEK_ERR_READ}

\* C18: every seek call terminates and returns 0 or an error code, also
\* when a read of the skip-forward loop delivers 0 bytes or fails.
C18_SeekTerminates ==
    \A a \in SeekArgs(sctx) :
        LET k == ZSTDSeek_seek(sctx, a[1], a[2]) IN
        ~k.hangs /\ k.ret \in SeekReturns

\* The coordinate of record m of jt for the position p.
CoordinateOf(jt, m, p) ==
    ZSTDSeek_JumpCoordinate(jt[m].compressedPos, p - jt[m].uncompressedPos, jt[m])

\* C19: on a non-empty jump table with strictly increasing records the
\* lookup of p returns the coordinate of the record with the greatest index
\* m such that records[m].uncompressedPos <= p; for p the sentinel's
\* position that is the sentinel with in-frame offset 0.
C19_Locate ==
    \A p \in LocateTargets :
        LET Found(g) ==
                (Len(g.sctx.jt) > 0 /\ StrictlyIncreasing(g.sctx.jt)) =>
                    \E m \in 1..Len(g.sctx.jt) :
                        /\ g.sctx.jt[m].uncompressedPos <= p
                        /\ m < Len(g.sctx.jt) => g.sctx.jt[m + 1].uncompressedPos > p
                        /\ g.jc = CoordinateOf(g.sctx.jt, m, p)
        IN  Found(ZSTDSeek_getJumpCoordinate(sctx, p))

\* Witness of C19: a lookup in a table of at least four records has
\* returned an inner record with a positive in-frame offset, and from the
\* same state the lookup of the sentinel's position returns the sentinel
\* with offset 0.
C19_Witness ==
    /\ last.op = "getJumpCoordinate"
    /\ Len(sctx.jt) >= 4
    /\ last.ret.jtr \in {sctx.jt[m] : m \in 2..Len(sctx.jt) - 1}
    /\ last.ret.uncompressedOffset > 0
    /\ ZSTDSeek_getJumpCoordinate(sctx, LastRecord(sctx.jt).uncompressedPos).jc
           = ZSTDSeek_JumpCoordinate(LastRecord(sctx.jt).compressedPos, 0,
                                     LastRecord(sctx.jt))

\* The compressed start of the frame that the index gives for position p.
FrameBaseOf(p) == ZSTDSeek_getJumpCoordinate(sctx, p).jc.compressedOffset

\* The target a lies in the frame the session is decoding: the frame of
\* tell(), whose compressed bytes are the bound input range.
InDecodedFrame(a) ==
    /\ FrameBaseOf(a) = FrameBaseOf(ZSTDSeek_tell(sctx))
    /\ FrameBaseOf(a) = sctx.input.src
    /\ sctx.input.size > 0

\* C20: a successful seek to a # tell() resets the session when a < tell()
\* or a lies in another frame than the one being decoded, and skips forward
\* without a reset when a > tell() lies in the frame being decoded.
C20_SeekPathSelection ==
    \A a \in 0 .. Total :
        LET k == ZSTDSeek_seek(sctx, a, SEEK_SET) IN
        (a # ZSTDSeek_tell(sctx) /\ k.ret = 0 /\ ~k.hangs) =>
            /\ (a < ZSTDSeek_tell(sctx)
                    \/ FrameBaseOf(a) # FrameBaseOf(ZSTDSeek_tell(sctx)))
                   => WasReset(sctx, k)
            /\ (a > ZSTDSeek_tell(sctx) /\ InDecodedFrame(a))
                   => (SkippedForward(k) /\ ~WasReset(sctx, k))

\* The contexts the query operations leave behind: the size queries, the
\* frame counters and the index initializations.
AfterQueries ==
    {ZSTDSeek_uncompressedFileSize(sctx).sctx,
     ZSTDSeek_initializeJumpTable(sctx).sctx,
     ZSTDSeek_getNumberOfFrames(sctx).sctx,
     ZSTDSeek_isMultiframe(sctx).sctx}
    \cup {ZSTDSeek_initializeJumpTableUpUntilPos(sctx, p).sctx : p \in 0..Total}
    \cup {ZSTDSeek_countFramesUpTo(sctx, u).sctx : u \in 0..MaxFrames + 1}

\* C21: a read that returns the byte count k leaves tell() at the previous
\* tell() plus k, bytes discarded after a seek not counted; the query
\* operations leave tell() unchanged.
C21_ReadAdvancesByCount ==
    /\ \A n \in ReadSizes :
           LET Advanced(r) ==
                   ~ZSTD_isError(r.ret) =>
                       ZSTDSeek_tell(r.sctx) = ZSTDSeek_tell(sctx) + r.ret
           IN  Advanced(ZSTDSeek_read(sctx, n))
    /\ \A s \in AfterQueries : ZSTDSeek_tell(s) = ZSTDSeek_tell(sctx)

\* Witness of C21: a read has delivered bytes, and from here a seek resets
\* the session to the middle of a frame so that the next read first
\* discards bytes and then delivers some.
C21_Witness ==
    /\ last.op = "read" /\ last.ret \in 1..MaxRead
    /\ \E a \in 0..Total, n \in 1..MaxRead :
           LET k == ZSTDSeek_seek(sctx, a, SEEK_SET)
               r == ZSTDSeek_read(k.sctx, n)
           IN  /\ WasReset(sctx, k)
               /\ k.sctx.jc.uncompressedOffset > 0
               /\ r.ret \in 1..MaxRead
               /\ ZSTDSeek_tell(r.sctx) = a + r.ret

\* C22: in every reachable state the position is within the indexed part
\* of the stream: tell() <= lastKnownUncompressedFileSize().
C22_PositionWithinIndex ==
    ZSTDSeek_tell(sctx) <= ZSTDSeek_lastKnownUncompressedFileSize(sctx)

\* Witness of C22: reads have carried a lazy reader to the end of the part
\* the jump table has indexed so far, which is not the whole stream.
C22_Witness ==
    /\ last.op = "read" /\ last.ret \in 1..MaxRead
    /\ sctx.jumpTableFullyInitialized = 0
    /\ ZSTDSeek_tell(sctx) = ZSTDSeek_lastKnownUncompressedFileSize(sctx)
    /\ ZSTDSeek_tell(sctx) < Total

\* The sequence s is a prefix of the sequence u.
IsPrefix(s, u) == Len(s) <= Len(u) /\ SubSeq(u, 1, Len(s)) = s

\* C23: the jump table is append-only: across every operation the records
\* before it are a prefix of the records after it.
C23_AppendOnly == [][IsPrefix(sctx.jt, sctx'.jt)]_vars

\* Witness of C23: a repeated initialization has appended to a table that
\* was complete: the table is longer than a single build makes it and
\* starts with the records of that build.
C23_Witness ==
    /\ last.op = "initializeJumpTable"
    /\ Len(sctx.jt) > Len(ZSTDSeek_create(sctx.buff).jt)
    /\ IsPrefix(ZSTDSeek_create(sctx.buff).jt, sctx.jt)

\* C24: the fullyInitialized flag is set only when the index covers the
\* whole stream: whenever jumpTableIsInitialized() = 1, also after a call
\* of the index builder that stopped at upUntilPos or returned an error,
\* the last record's uncompressedPos is the total uncompressed size.
C24_FlagMeansComplete ==
    (sctx.buff.trailer # "overstated"
        /\ ZSTDSeek_jumpTableIsInitialized(sctx) = 1) =>
        ZSTDSeek_lastKnownUncompressedFileSize(sctx) = Total

\* C25: with a trailer that carries the footer magic and fails one of the
\* checks, a call of the index builder does not fail because of the
\* trailer, takes no record from it and gives what the linear scan of the
\* source gives.
C25_MalformedTrailerFallback ==
    (sctx.buff.trailer \in MalformedTrailers /\ os.fault = "none") =>
        /\ ~IndexBuilderFaults(sctx)
        /\ \A p \in UpUntilPositions :
               ZSTDSeek_initializeJumpTableUpUntilPos(sctx, p) = LinearScan(sctx, p)

\* C26: the records imported from a seek table carry the exact prefix sums
\* of the per-frame sizes, also when a sum passes what 32 bits hold.
C26_ImportKeepsFullWidth ==
    (SeekTableDetected(sctx.buff) /\ Len(sctx.jt) > 0) =>
        \A i \in 1 .. Len(sctx.buff.frames) + 1 :
            sctx.jt[i] = ZSTDSeek_JumpTableRecord(
                             SumCSize(sctx.buff.frames, i - 1),
                             SumUSize(sctx.buff.frames, i - 1))

\* The jump table and the fullyInitialized flag of a context.
IndexOf(s) == <<s.jt, s.jumpTableFullyInitialized>>

\* The contexts that the operations which run a full initialization leave
\* behind: initializeJumpTable, uncompressedFileSize and seek(.., SEEK_END).
AfterFullInitialization ==
    {ZSTDSeek_initializeJumpTable(sctx).sctx,
     ZSTDSeek_uncompressedFileSize(sctx).sctx}
    \cup {ZSTDSeek_seek(sctx, a - Total, SEEK_END).sctx : a \in Targets(sctx)}

\* C27: once the jump table is fully initialized, initializeJumpTable,
\* uncompressedFileSize and seek(.., SEEK_END) leave the records, their
\* number and the fullyInitialized flag as they are.
C27_InitializationIdempotent ==
    ZSTDSeek_jumpTableIsInitialized(sctx) = 1 =>
        \A s \in AfterFullInitialization : IndexOf(s) = IndexOf(sctx)

\* C28: for a source without a seek table, a full initialization after any
\* sequence of partial extensions gives the jump table that a single full
\* scan on a fresh reader gives, with the index marked complete.
C28_LazyExtensionConfluent ==
    ~SeekTableDetected(sctx.buff) =>
        LET Same(full) ==
                /\ full.sctx.jt = ZSTDSeek_create(sctx.buff).jt
                /\ full.sctx.jumpTableFullyInitialized = 1
                /\ full.ret = 0
        IN  Same(ZSTDSeek_initializeJumpTable(sctx))

\* Witness of C28: a partial extension has stopped before the end of a
\* source that has a frame of zero length or of unknown content size, and
\* the full initialization has records to add.
C28_Witness ==
    /\ last.op = "initializeJumpTableUpUntilPos"
    /\ ~SeekTableDetected(sctx.buff)
    /\ sctx.jumpTableFullyInitialized = 0
    /\ Len(sctx.jt) >= 2
    /\ \E i \in 1..Len(sctx.buff.frames) :
           sctx.buff.frames[i].usize = 0 \/ ~sctx.buff.frames[i].known
    /\ Len(ZSTDSeek_initializeJumpTable(sctx).sctx.jt) > Len(sctx.jt)

====
